---- MODULE Spec2Model ----
(***************************************************************************)
(* Workflow state machine and orchestrator of jobpilot                      *)
(* (src/services/orchestrator.py).                                          *)
(*                                                                          *)
(* One WorkflowContext is modelled (variable ctx) together with the         *)
(* knowledge store (kb) and the wall clock read by datetime.utcnow()        *)
(* (clock).  Every public operation of the orchestrator is one atomic       *)
(* action: the context has a single owner and operations do not            *)
(* interleave.  The collaborators (discovery, CV architect, notification    *)
(* callback) are opaque: what they return, and whether they raise, is       *)
(* chosen nondeterministically by each action.                              *)
(*                                                                          *)
(* Variable last is a history variable of the specifications that follow   *)
(* single calls (SpecSM, SpecScenario): it records the call that produced   *)
(* the current state.  Spec, which explores every order of calls, keeps no  *)
(* history: its claims are stated on the context, or on the set of calls    *)
(* that can be made from the current state (Calls).  The clock advances in  *)
(* SpecSM only: no operation reads updated_at, so Spec holds it still.      *)
(***************************************************************************)
EXTENDS Integers, Sequences, FiniteSets, TLC

VARIABLES ctx, kb, clock, last

vars == <<ctx, kb, clock, last>>

----------------------------------------------------------------------------
(* Bounds of the model *)

\* longest job list the discovery service returns, and longest index list
\* a caller passes to step_select_jobs
MaxJobs == 2

\* most records the errors log may hold before collaborators stop failing
MaxErrors == 1

\* latest reading of the clock
MaxClock == 2

MaxSel == MaxJobs

\* longest job list the discovery service returns in SpecAutonomous: one more
\* than the ten that step_select_jobs keeps
MaxBatch == 11

\* ATS scores are drawn this far below and above the threshold
ScoreMargin == 2

\* rejections stop once the cursor is this far (the longest selection, so
\* the cursor can be past the end of any shorter one)
MaxIndex == MaxSel

(* Program constants *)

\* run_workflow: max_iterations = 100
max_iterations == 100

\* step_select_jobs: ctx.discovered_jobs[:10]
TopN == 10

\* WorkflowSettings.ats_score_threshold = 0.85, used as threshold * 100
ats_score_threshold_pct == 85

----------------------------------------------------------------------------
(* Values *)

\* Python's None where a string is expected (job_id, until_state, feedback)
None == "<None>"

INIT == "init"
SEARCHING == "searching"
JOBS_FOUND == "jobs_found"
JOBS_SELECTED == "jobs_selected"
CV_GENERATING == "cv_generating"
CV_READY == "cv_ready"
AWAITING_USER_APPROVAL == "awaiting_user_approval"
CV_APPROVED == "cv_approved"
APPLYING == "applying"
NEEDS_INPUT == "needs_input"
INPUT_RECEIVED == "input_received"
SUBMITTED == "submitted"
COMPLETE == "complete"
FAILED == "failed"
CANCELLED == "cancelled"

WorkflowState ==
    {INIT, SEARCHING, JOBS_FOUND, JOBS_SELECTED, CV_GENERATING, CV_READY,
     AWAITING_USER_APPROVAL, CV_APPROVED, APPLYING, NEEDS_INPUT,
     INPUT_RECEIVED, SUBMITTED, COMPLETE, FAILED, CANCELLED}

SUPERVISED == "supervised"
AUTONOMOUS == "autonomous"

ApplicationMode == {SUPERVISED, AUTONOMOUS}

\* str(i) for the cursor values the model reaches
str(i) ==
    <<"0", "1", "2", "3", "4", "5", "6", "7", "8", "9", "10", "11", "12">>[i + 1]

\* d[k] = v on a dict
Put(d, k, v) == (k :> v) @@ d

\* mutant of Prefix: the whole list
Prefix_whole(s, n) == s

\* list[:n]
Prefix(s, n) == SubSeq(s, 1, IF Len(s) < n THEN Len(s) ELSE n)

\* list[i] with Python's indexing (negative i counts from the end)
PyIndex(s, i) == IF i >= 0 THEN s[i + 1] ELSE s[Len(s) + i + 1]

\* whether list[i] raises IndexError
PyIndexError(s, i) == i >= Len(s) \/ i < 0 - Len(s)

----------------------------------------------------------------------------
(* WorkflowStateMachine *)

\* mutant of TRANSITIONS: the table of the class docstring, which lists no
\* edge to FAILED
TRANSITIONS_docstring ==
    (INIT :> {SEARCHING})
    @@ (SEARCHING :> {JOBS_FOUND})
    @@ (JOBS_FOUND :> {JOBS_SELECTED})
    @@ (JOBS_SELECTED :> {CV_GENERATING})
    @@ (CV_GENERATING :> {CV_READY})
    @@ (CV_READY :> {AWAITING_USER_APPROVAL, CV_APPROVED})
    @@ (AWAITING_USER_APPROVAL :> {CV_APPROVED, CV_GENERATING})
    @@ (CV_APPROVED :> {APPLYING})
    @@ (APPLYING :> {NEEDS_INPUT, SUBMITTED})
    @@ (NEEDS_INPUT :> {INPUT_RECEIVED})
    @@ (INPUT_RECEIVED :> {APPLYING})
    @@ (SUBMITTED :> {CV_GENERATING, COMPLETE})

TRANSITIONS ==
    (INIT :> {SEARCHING})
    @@ (SEARCHING :> {JOBS_FOUND, FAILED})
    @@ (JOBS_FOUND :> {JOBS_SELECTED})
    @@ (JOBS_SELECTED :> {CV_GENERATING})
    @@ (CV_GENERATING :> {CV_READY, FAILED})
    @@ (CV_READY :> {AWAITING_USER_APPROVAL, CV_APPROVED})
    @@ (AWAITING_USER_APPROVAL :> {CV_APPROVED, CV_GENERATING})
    @@ (CV_APPROVED :> {APPLYING})
    @@ (APPLYING :> {NEEDS_INPUT, SUBMITTED, FAILED})
    @@ (NEEDS_INPUT :> {INPUT_RECEIVED})
    @@ (INPUT_RECEIVED :> {APPLYING})
    @@ (SUBMITTED :> {CV_GENERATING, COMPLETE})

\* mutant of can_transition: a state without an entry in TRANSITIONS allows
\* every target
can_transition_default_all(from_state, to_state) ==
    LET valid_targets ==
            IF from_state \in DOMAIN TRANSITIONS
            THEN TRANSITIONS[from_state] ELSE WorkflowState
    IN to_state \in valid_targets

\* TRANSITIONS.get(from_state, []) ; to_state in valid_targets
can_transition(from_state, to_state) ==
    LET valid_targets ==
            IF from_state \in DOMAIN TRANSITIONS
            THEN TRANSITIONS[from_state] ELSE {}
    IN to_state \in valid_targets

\* WorkflowContext.update: self.updated_at = datetime.utcnow()
update(c) == [c EXCEPT !.updated_at = clock]

(* A frame is a call in progress: the context and knowledge store as mutated *)
(* so far, the result of the last transition (ret), whether an exception is  *)
(* propagating out of the call (raised), which collaborators may fail       *)
(* during the call (faulty), and what the call did: the states its           *)
(* transitions went through (path, starting with the state at entry), the    *)
(* submissions it appended (submits) and the loop iterations of run_workflow *)
(* (iters).                                                                  *)
Collaborators == {"discovery", "cv_architect", "notification"}

Frame(c, k) ==
    [ctx |-> c, kb |-> k, ret |-> TRUE, raised |-> FALSE,
     faulty |-> Collaborators,
     path |-> <<c.current_state>>, submits |-> <<>>, iters |-> 0]

\* mutant of transition: ctx.update() is called whether or not the
\* transition is accepted
transition_always_updates(f, to_state) ==
    IF can_transition(f.ctx.current_state, to_state)
    THEN [f EXCEPT !.ctx = update([@ EXCEPT !.current_state = to_state]),
                   !.path = Append(@, to_state),
                   !.ret = TRUE]
    ELSE [f EXCEPT !.ctx = update(@), !.ret = FALSE]

\* mutant of transition: the target state is assigned without consulting
\* can_transition
transition_unchecked(f, to_state) ==
    [f EXCEPT !.ctx = update([@ EXCEPT !.current_state = to_state]),
              !.path = Append(@, to_state),
              !.ret = TRUE]

\* WorkflowStateMachine.transition(ctx, to_state) on the frame's context
transition(f, to_state) ==
    IF can_transition(f.ctx.current_state, to_state)
    THEN [f EXCEPT !.ctx = update([@ EXCEPT !.current_state = to_state]),
                   !.path = Append(@, to_state),
                   !.ret = TRUE]
    ELSE [f EXCEPT !.ret = FALSE]

----------------------------------------------------------------------------
(* WorkflowContext and create_workflow *)

\* WorkflowContext as create_workflow builds it (fields the orchestrator
\* never assigns after construction other than these are left out:
\* preferences, base_cv, user_profile, form_states)
create_workflow(user_id, mode) ==
    [workflow_id |-> "w1",
     user_id |-> user_id,
     mode |-> mode,
     current_state |-> INIT,
     discovered_jobs |-> <<>>,
     selected_jobs |-> <<>>,
     current_job_index |-> 0,
     generated_cvs |-> <<>>,
     cv_validations |-> <<>>,
     pending_inputs |-> <<>>,
     submitted_applications |-> <<>>,
     created_at |-> clock,
     updated_at |-> clock,
     errors |-> <<>>]

----------------------------------------------------------------------------
(* Collaborators: what they may return *)

\* the job records the discovery service knows, best match first; only
\* title and job_id are read by the orchestrator. JobListing.job_id is
\* Optional, and DiscoveryAgent itself never sets it
Catalog ==
    <<[title |-> "t1", job_id |-> "A"], [title |-> "t2", job_id |-> None]>>

\* batch.jobs of DiscoveryAgent.search: api_jobs sorted by relevance
DiscoveryResults ==
    {SubSeq(Catalog, 1, n) : n \in 0..(IF MaxJobs < Len(Catalog) THEN MaxJobs ELSE Len(Catalog))}

\* (generated_cv, validation) of CVArchitectAgent.create_tailored_cv
CvResults ==
    {[generated_cv |-> [ats_score |-> 95],
      validation |-> [overall_verdict |-> "PASS",
                      hallucinations_found |-> <<>>]],
     [generated_cv |-> [ats_score |-> 70],
      validation |-> [overall_verdict |-> "FAIL",
                      hallucinations_found |-> <<"h">>]]}

\* In supervised mode the orchestrator stores the two payloads and never
\* reads them, so one payload stands for all; in autonomous mode
\* should_auto_approve reads them and both are drawn.
CvResultsFor(c) ==
    IF c.mode = AUTONOMOUS
    THEN CvResults
    ELSE {r \in CvResults : r.generated_cv.ats_score = 95}

\* dict.get(key) being truthy, for a list-valued key
Truthy(d, k) == k \in DOMAIN d /\ d[k] # <<>>

\* mutant of should_auto_approve: a score equal to the threshold is refused
should_auto_approve_above(generated_cv, validation_report) ==
    /\ "overall_verdict" \in DOMAIN validation_report
    /\ validation_report["overall_verdict"] \in {"PASS", "PASS - MINOR ISSUES"}
    /\ generated_cv.ats_score > ats_score_threshold_pct
    /\ ~("hallucinations_found" \in DOMAIN validation_report
         /\ validation_report["hallucinations_found"] # <<>>)

\* CVArchitectAgent.should_auto_approve
should_auto_approve(generated_cv, validation_report) ==
    IF ~("overall_verdict" \in DOMAIN validation_report
         /\ validation_report["overall_verdict"]
                \in {"PASS", "PASS - MINOR ISSUES"})
    THEN FALSE
    ELSE IF generated_cv.ats_score < ats_score_threshold_pct
    THEN FALSE
    ELSE IF Truthy(validation_report, "hallucinations_found")
    THEN FALSE
    ELSE TRUE

\* a collaborator may fail during the call of frame f only while the errors
\* log has room (model bound)
MayFail(f, who) == who \in f.faulty /\ Len(f.ctx.errors) < MaxErrors

\* does the call of collaborator who return (TRUE) or raise (FALSE)
Outcomes(f, who) == IF MayFail(f, who) THEN {TRUE, FALSE} ELSE {TRUE}

\* the environment of a call that consults no collaborator
NoEnv ==
    [discovery_ok |-> TRUE, jobs |-> <<>>, cv_ok |-> TRUE,
     cv |-> [generated_cv |-> [ats_score |-> 95],
             validation |-> [overall_verdict |-> "PASS",
                             hallucinations_found |-> <<>>]],
     notify_ok |-> TRUE]

\* environment of one step_search call: does discovery return, what, and
\* does the notification callback return
SearchEnvs(f) ==
    {[NoEnv EXCEPT !.jobs = j, !.notify_ok = n] :
        j \in DiscoveryResults, n \in Outcomes(f, "notification")}
    \cup {[NoEnv EXCEPT !.discovery_ok = FALSE] :
            x \in Outcomes(f, "discovery") \ {TRUE}}

\* environment of one step_generate_cv call: does the CV architect return,
\* what, and does the notification callback return
CvEnvs(f) ==
    IF f.ctx.current_job_index >= Len(f.ctx.selected_jobs)
    THEN {NoEnv}
    ELSE {[NoEnv EXCEPT !.cv = r, !.notify_ok = n] :
            r \in CvResultsFor(f.ctx), n \in Outcomes(f, "notification")}
         \cup {[NoEnv EXCEPT !.cv_ok = FALSE] :
                 x \in Outcomes(f, "cv_architect") \ {TRUE}}

\* environment of one step_apply call: does the notification callback return
ApplyEnvs(f) ==
    IF f.ctx.current_state # CV_APPROVED
    THEN {NoEnv}
    ELSE {[NoEnv EXCEPT !.notify_ok = n] : n \in Outcomes(f, "notification")}

----------------------------------------------------------------------------
(* Knowledge store *)

\* str.lower() on the question texts of the model
lower(q) == IF q = "Visa?" THEN "visa?" ELSE q

\* mutant of add_entry: an existing entry with the same lower-cased question
\* is kept as it is
add_entry_keeps_first(k, user_id, question_pattern, answer) ==
    LET entries == IF user_id \in DOMAIN k THEN k[user_id] ELSE <<>>
        entry == [question_pattern |-> lower(question_pattern),
                  answer |-> answer, source |-> "user_input"]
    IN IF \E i \in DOMAIN entries :
            entries[i].question_pattern = entry.question_pattern
       THEN k
       ELSE Put(k, user_id, Append(entries, entry))

\* KnowledgeBase.add_entry: update the entry with the same lower-cased
\* question, else append
add_entry(k, user_id, question_pattern, answer) ==
    LET entries == IF user_id \in DOMAIN k THEN k[user_id] ELSE <<>>
        entry == [question_pattern |-> lower(question_pattern),
                  answer |-> answer, source |-> "user_input"]
        hits == {i \in DOMAIN entries :
                    entries[i].question_pattern = entry.question_pattern}
    IN IF hits # {}
       THEN LET i == CHOOSE x \in hits : \A y \in hits : x <= y
            IN Put(k, user_id, [entries EXCEPT ![i] = entry])
       ELSE Put(k, user_id, Append(entries, entry))

----------------------------------------------------------------------------
(* Step functions, each on a frame *)

\* job.job_id or str(ctx.current_job_index)
JobIdOf(job, index) ==
    IF job.job_id \in {None, ""} THEN str(index) ELSE job.job_id

\* mutant of AppendError: the log keeps the latest record only
AppendError_latest_only(f, record) == [f EXCEPT !.ctx.errors = <<record>>]

\* ctx.errors.append(record)
AppendError(f, record) == [f EXCEPT !.ctx.errors = Append(@, record)]

\* whether cv_validations holds an entry for job_id with approved true
IsApproved(c, job_id) ==
    /\ job_id \in DOMAIN c.cv_validations
    /\ "approved" \in DOMAIN c.cv_validations[job_id]
    /\ c.cv_validations[job_id]["approved"] = TRUE

step_search(f, e) ==
    LET f1 == transition(f, SEARCHING)
    IN  IF ~e.discovery_ok
        THEN transition(
                AppendError(f1, [step |-> "search",
                                 message |-> "discovery failed"]),
                FAILED)
        ELSE LET f2 == [f1 EXCEPT !.ctx.discovered_jobs = e.jobs]
                 f3 == transition(f2, JOBS_FOUND)
             IN  IF ~e.notify_ok
                 THEN transition(
                        AppendError(f3, [step |-> "search",
                                         message |-> "notify failed"]),
                        FAILED)
                 ELSE f3

step_select_jobs(f, selected_indices) ==
    LET c == f.ctx
        n == Len(c.discovered_jobs)
    IN  IF c.mode = AUTONOMOUS
        THEN transition(
                [f EXCEPT !.ctx.selected_jobs = Prefix(c.discovered_jobs, TopN)],
                JOBS_SELECTED)
        ELSE IF Len(selected_indices) > 0
        THEN LET kept == SelectSeq(selected_indices, LAMBDA i : i < n)
             IN  IF \E k \in DOMAIN kept : PyIndexError(c.discovered_jobs, kept[k])
                 THEN [f EXCEPT !.raised = TRUE]
                 ELSE transition(
                        [f EXCEPT !.ctx.selected_jobs =
                            [k \in 1..Len(kept) |->
                                PyIndex(c.discovered_jobs, kept[k])]],
                        JOBS_SELECTED)
        ELSE f

\* mutant of asks_for_approval: the user is asked about every CV
asks_for_approval_always(c, generated_cv, validation) == TRUE

\* mutant of asks_for_approval: every CV is approved on the spot, whatever
\* the mode
asks_for_approval_never(c, generated_cv, validation) == FALSE

\* the branch of step_generate_cv that decides on approval: TRUE when the
\* user is asked, FALSE when the CV is approved on the spot
asks_for_approval(c, generated_cv, validation) ==
    IF c.mode = AUTONOMOUS
    THEN ~should_auto_approve(generated_cv, validation)
    ELSE TRUE

\* mutant of cv_generation_failed: the failure is fatal, as in step_apply
cv_generation_failed_fatal(g, job, msg) ==
    transition(
        [g EXCEPT !.ctx.errors =
                    Append(@, [step |-> "cv_generation",
                               job |-> job.title, message |-> msg])],
        FAILED)

\* the except branch of step_generate_cv: record the error, skip the job
cv_generation_failed(g, job, msg) ==
    [g EXCEPT !.ctx.errors =
                Append(@, [step |-> "cv_generation",
                           job |-> job.title, message |-> msg]),
              !.ctx.current_job_index = @ + 1]

\* mutant of store_results: the validation is stored only when it passed
store_results_passed_only(c, job_id, generated_cv, validation) ==
    [c EXCEPT !.generated_cvs = Put(@, job_id, generated_cv),
              !.cv_validations =
                    IF validation.overall_verdict = "PASS"
                    THEN Put(@, job_id, validation) ELSE @]

\* step_generate_cv's "Store results": the CV and its validation, under
\* the same job id
store_results(c, job_id, generated_cv, validation) ==
    [c EXCEPT !.generated_cvs = Put(@, job_id, generated_cv),
              !.cv_validations = Put(@, job_id, validation)]

step_generate_cv(f, e) ==
    LET c == f.ctx
    IN  IF c.current_job_index >= Len(c.selected_jobs)
        THEN f
        ELSE
        LET job == c.selected_jobs[c.current_job_index + 1]
            f1 == transition(f, CV_GENERATING)
            except(g, msg) == cv_generation_failed(g, job, msg)
            notified(g) ==
                IF e.notify_ok THEN g ELSE except(g, "notify failed")
        IN  IF ~e.cv_ok
            THEN except(f1, "cv failed")
            ELSE
            LET job_id == JobIdOf(job, c.current_job_index)
                f2 == [f1 EXCEPT !.ctx = store_results(@, job_id,
                                            e.cv.generated_cv, e.cv.validation)]
                f3 == transition(f2, CV_READY)
            IN  IF asks_for_approval(c, e.cv.generated_cv, e.cv.validation)
                THEN notified(transition(f3, AWAITING_USER_APPROVAL))
                ELSE transition(
                        [f3 EXCEPT !.ctx.cv_validations[job_id] =
                                        Put(@, "approved", TRUE)],
                        CV_APPROVED)

step_approve_cv(f, job_id, approved, feedback) ==
    IF job_id \notin DOMAIN f.ctx.cv_validations
    THEN [f EXCEPT !.raised = TRUE]
    ELSE IF approved
    THEN transition(
            [f EXCEPT !.ctx.cv_validations[job_id] = Put(@, "approved", TRUE)],
            CV_APPROVED)
    ELSE transition(
            [f EXCEPT !.ctx.cv_validations[job_id] =
                        Put(Put(@, "approved", FALSE), "feedback", feedback),
                      !.ctx.current_job_index = @ + 1],
            CV_GENERATING)

\* mutant of more_jobs_remain: the last selected job is not counted
more_jobs_remain_but_last(c) == c.current_job_index + 1 < Len(c.selected_jobs)

\* step_apply's test after advancing the cursor: is there another job
more_jobs_remain(c) == c.current_job_index < Len(c.selected_jobs)

step_apply(f, e) ==
    LET c == f.ctx
    IN  IF c.current_state # CV_APPROVED
        THEN f
        ELSE IF PyIndexError(c.selected_jobs, c.current_job_index)
        THEN [f EXCEPT !.raised = TRUE]
        ELSE
        LET job == c.selected_jobs[c.current_job_index + 1]
            job_id == JobIdOf(job, c.current_job_index)
            f1 == transition(f, APPLYING)
            f2 == [f1 EXCEPT
                    !.ctx.submitted_applications = Append(@, job_id),
                    !.submits = Append(@, [job_id |-> job_id,
                                           approved |-> IsApproved(f1.ctx, job_id)])]
            f3 == transition(f2, SUBMITTED)
        IN  IF ~e.notify_ok
            THEN transition(
                    AppendError(f3, [step |-> "apply", job |-> job.title,
                                     message |-> "notify failed"]),
                    FAILED)
            ELSE LET f4 == [f3 EXCEPT !.ctx.current_job_index = @ + 1]
                 IN  IF more_jobs_remain(f4.ctx)
                     THEN transition(f4, CV_GENERATING)
                     ELSE transition(f4, COMPLETE)

RECURSIVE add_entries(_, _, _)
\* for question, answer in answers.items(): knowledge_base.add_entry(...)
add_entries(k, user_id, answers) ==
    IF answers = <<>>
    THEN k
    ELSE add_entries(add_entry(k, user_id, answers[1][1], answers[1][2]),
                     user_id, Tail(answers))

\* mutant of input_expected: answers are taken in every state
input_expected_always(c) == TRUE

\* step_handle_input's guard: not (ctx.current_state != NEEDS_INPUT)
input_expected(c) == c.current_state = NEEDS_INPUT

step_handle_input(f, answers, e) ==
    IF ~input_expected(f.ctx)
    THEN f
    ELSE LET f1 == [f EXCEPT !.kb = add_entries(@, f.ctx.user_id, answers),
                             !.ctx.pending_inputs = <<>>]
             f2 == transition(f1, INPUT_RECEIVED)
             f3 == transition(f2, APPLYING)
         IN  step_apply(f3, e)

----------------------------------------------------------------------------
(* Driver loop *)

\* mutant of waits_for_selection: the loop selects in either mode
waits_for_selection_never(c) == FALSE

\* run_workflow at JOBS_FOUND: if ctx.mode == ApplicationMode.SUPERVISED: break
waits_for_selection(c) == c.mode = SUPERVISED

\* mutant of loop_continues: the ceiling is compared with <=
loop_continues_once_more(iteration) == iteration <= max_iterations

\* while iteration < max_iterations
loop_continues(iteration) == iteration < max_iterations

\* the value of iteration when the loop ends, for a loop that from iteration
\* it on changes nothing but iteration
spin_end(it) ==
    CHOOSE n \in it..(max_iterations + 1) :
        /\ ~loop_continues(n)
        /\ \A m \in it..(n - 1) : loop_continues(m)

RECURSIVE run_loop(_, _, _)
\* the while loop of run_workflow from the top of one iteration: the set of
\* frames it may return with, over every behaviour of the collaborators.
\* An iteration whose dispatch can only hand back the frame it was given
\* (no collaborator consulted, nothing assigned) is repeated unchanged until
\* the loop condition fails; that outcome (spin_end) is written down
\* directly instead of unrolling the remaining iterations.
run_loop(f, until_state, iteration) ==
    IF ~loop_continues(iteration)
    THEN {[f EXCEPT !.iters = iteration]}
    ELSE
    LET it == iteration + 1
        c == f.ctx
        current == c.current_state
        break == {[f EXCEPT !.iters = it]}
        continue(results) ==
            IF results = {f}
            THEN {[f EXCEPT !.iters = spin_end(it)]}
            ELSE UNION {IF g.raised
                        THEN {[g EXCEPT !.iters = it]}
                        ELSE run_loop(g, until_state, it) : g \in results}
    IN  IF current \in {COMPLETE, FAILED, CANCELLED}
        THEN break
        ELSE IF until_state # None /\ current = until_state
        THEN break
        ELSE IF current \in {AWAITING_USER_APPROVAL, NEEDS_INPUT}
        THEN break
        ELSE IF current = INIT
        THEN continue({step_search(f, e) : e \in SearchEnvs(f)})
        ELSE IF current = JOBS_FOUND
        THEN IF waits_for_selection(c)
             THEN break
             ELSE continue({step_select_jobs(f, <<>>)})
        ELSE IF current = JOBS_SELECTED
        THEN continue({step_generate_cv(f, e) : e \in CvEnvs(f)})
        ELSE IF current = CV_GENERATING
        THEN continue({step_generate_cv(f, e) : e \in CvEnvs(f)})
        ELSE IF current = CV_APPROVED
        THEN continue({step_apply(f, e) : e \in ApplyEnvs(f)})
        ELSE IF current = INPUT_RECEIVED
        THEN continue({step_apply(f, e) : e \in ApplyEnvs(f)})
        ELSE IF current = SUBMITTED
        THEN IF c.current_job_index < Len(c.selected_jobs)
             THEN continue({step_generate_cv(f, e) : e \in CvEnvs(f)})
             ELSE continue({transition(f, COMPLETE)})
        ELSE break

\* run_workflow(ctx, until_state)
run_workflow(f, until_state) == run_loop(f, until_state, 0)

----------------------------------------------------------------------------
(* Callers' arguments *)

\* selected_indices of step_select_jobs: None or [] (as <<>>), or a list of
\* integers, in range or not, possibly repeated
IndexLists == UNION {[1..n -> (0 - 1)..MaxJobs] : n \in 0..MaxSel}

\* job_id of step_approve_cv: the ids the model's jobs can get, and one that
\* no job has
JobIdArgs == {"A", "zz"} \cup {str(i) : i \in 0..(MaxSel - 1)}

\* until_state of run_workflow
UntilArgs == {None, CV_READY, CV_APPROVED}

\* answers of step_handle_input, as the list of its items (a dict keeps its
\* keys distinct, but two keys may differ in case only)
AnswerArgs ==
    {<<>>, <<<<"Visa?", "yes">>>>, <<<<"visa?", "no">>>>,
     <<<<"Visa?", "yes">>, <<"visa?", "no">>>>}

\* the arguments of a call; an operation reads only its own
NoArg ==
    [to_state |-> None, selected_indices |-> <<>>, job_id |-> None,
     approved |-> FALSE, answers |-> <<>>, until_state |-> None]

----------------------------------------------------------------------------
(* The calls that can be made on context c with knowledge store k: each is  *)
(* the operation, its arguments and the frame it ends with.                  *)

SearchCalls(c, k) ==
    {[op |-> "step_search", arg |-> NoArg, f |-> step_search(Frame(c, k), e)] :
        e \in SearchEnvs(Frame(c, k))}

SelectCalls(c, k) ==
    {[op |-> "step_select_jobs", arg |-> [NoArg EXCEPT !.selected_indices = i],
      f |-> step_select_jobs(Frame(c, k), i)] : i \in IndexLists}

GenerateCalls(c, k) ==
    {[op |-> "step_generate_cv", arg |-> NoArg,
      f |-> step_generate_cv(Frame(c, k), e)] : e \in CvEnvs(Frame(c, k))}

\* rejections are bounded by MaxIndex (model bound on the cursor)
ApproveCalls(c, k) ==
    {[op |-> "step_approve_cv",
      arg |-> [NoArg EXCEPT !.job_id = a[1], !.approved = a[2]],
      f |-> step_approve_cv(Frame(c, k), a[1], a[2],
                            IF a[2] THEN None ELSE "User rejected")] :
        a \in {x \in JobIdArgs \X BOOLEAN :
                x[2] \/ c.current_job_index < MaxIndex}}

ApplyCalls(c, k) ==
    {[op |-> "step_apply", arg |-> NoArg, f |-> step_apply(Frame(c, k), e)] :
        e \in ApplyEnvs(Frame(c, k))}

HandleInputCalls(c, k) ==
    {[op |-> "step_handle_input", arg |-> [NoArg EXCEPT !.answers = a],
      f |-> step_handle_input(Frame(c, k), a, NoEnv)] : a \in AnswerArgs}

RunCalls(c, k) ==
    UNION {{[op |-> "run_workflow", arg |-> [NoArg EXCEPT !.until_state = u],
             f |-> g] : g \in run_workflow(Frame(c, k), u)} : u \in UntilArgs}

Calls(c, k) ==
    SearchCalls(c, k) \cup SelectCalls(c, k) \cup GenerateCalls(c, k)
    \cup ApproveCalls(c, k) \cup ApplyCalls(c, k) \cup HandleInputCalls(c, k)
    \cup RunCalls(c, k)

----------------------------------------------------------------------------
(* Actions: one per public operation *)

\* the call is made: the context and the knowledge store are as it left them
Do(call) ==
    /\ ctx' = call.f.ctx
    /\ kb' = call.f.kb
    /\ UNCHANGED <<clock, last>>

StepSearch == \E call \in SearchCalls(ctx, kb) : Do(call)

StepSelectJobs == \E call \in SelectCalls(ctx, kb) : Do(call)

StepGenerateCv == \E call \in GenerateCalls(ctx, kb) : Do(call)

StepApproveCv == \E call \in ApproveCalls(ctx, kb) : Do(call)

StepApply == \E call \in ApplyCalls(ctx, kb) : Do(call)

StepHandleInput == \E call \in HandleInputCalls(ctx, kb) : Do(call)

RunWorkflow == \E call \in RunCalls(ctx, kb) : Do(call)

\* the history before any call
NoCall ==
    [op |-> "create_workflow", arg |-> NoArg, ret |-> TRUE, raised |-> FALSE]

\* the state after create_workflow, in either mode, with an empty profile
\* (populate_from_profile adds nothing)
Init ==
    /\ clock = 0
    /\ kb = <<>>
    /\ ctx \in {create_workflow("u1", m) : m \in ApplicationMode}
    /\ last = NoCall

Next ==
    \/ StepSearch
    \/ StepSelectJobs
    \/ StepGenerateCv
    \/ StepApproveCv
    \/ StepApply
    \/ StepHandleInput
    \/ RunWorkflow

Spec == Init /\ [][Next]_vars

----------------------------------------------------------------------------
(* SpecSM: WorkflowStateMachine.transition alone, called with every target  *)
(* state on contexts in every state, while the clock advances.               *)

\* a context with something in every field
BusyContext(user_id, mode) ==
    [create_workflow(user_id, mode) EXCEPT
        !.discovered_jobs = Catalog,
        !.selected_jobs = Catalog,
        !.current_job_index = 1,
        !.generated_cvs = Put(<<>>, "A", NoEnv.cv.generated_cv),
        !.cv_validations = Put(<<>>, "A", Put(NoEnv.cv.validation, "approved", TRUE)),
        !.pending_inputs = <<"q1">>,
        !.submitted_applications = <<"A">>,
        !.errors = <<[step |-> "search", message |-> "discovery failed"]>>]

\* contexts in any state: fresh or busy, created at 0, last updated at any
\* time up to now
AnyContexts ==
    {[c EXCEPT !.current_state = s, !.created_at = 0, !.updated_at = t] :
        c \in {create_workflow("u1", m) : m \in ApplicationMode}
              \cup {BusyContext("u1", m) : m \in ApplicationMode},
        s \in WorkflowState,
        t \in 0..clock}

\* WorkflowStateMachine.transition(ctx, to_state), called directly
TransitionCall ==
    \E to_state \in WorkflowState :
        LET g == transition(Frame(ctx, kb), to_state)
        IN  /\ ctx' = g.ctx
            /\ last' = [op |-> "transition",
                        arg |-> [NoArg EXCEPT !.to_state = to_state],
                        ret |-> g.ret, raised |-> g.raised, before |-> ctx]
            /\ UNCHANGED <<kb, clock>>

\* time passes: datetime.utcnow() reads a later value
Tick ==
    /\ clock < MaxClock
    /\ clock' = clock + 1
    /\ UNCHANGED <<ctx, kb, last>>

InitSM ==
    /\ clock \in 0..MaxClock
    /\ kb = <<>>
    /\ ctx \in AnyContexts
    /\ last = NoCall

NextSM == TransitionCall \/ Tick

SpecSM == InitSM /\ [][NextSM]_vars

----------------------------------------------------------------------------
(* The operations on contexts in any state. WorkflowContext is a plain       *)
(* dataclass: a caller may hand the orchestrator a context in any state,     *)
(* CANCELLED included, which no operation of the orchestrator assigns.       *)

InitAny ==
    /\ clock = 0
    /\ kb = <<>>
    /\ ctx \in AnyContexts
    /\ last = NoCall

SpecAny == InitAny /\ [][Next]_vars

----------------------------------------------------------------------------
(* The supervised scenario: the caller searches, selects distinct jobs,      *)
(* runs the workflow, and after each halt at AWAITING_USER_APPROVAL approves *)
(* the job at the cursor and runs the workflow again. Discovery and the CV   *)
(* architect return; the notification callback may raise. last.halts counts  *)
(* the returns of run_workflow at AWAITING_USER_APPROVAL.                    *)

Injective(s) == \A i, j \in DOMAIN s : s[i] = s[j] => i = j

\* lists of 1..MaxJobs distinct jobs, in any order
ScenarioDiscovery ==
    {[i \in DOMAIN s |-> Catalog[s[i]]] :
        s \in {t \in UNION {[1..n -> DOMAIN Catalog] : n \in 1..MaxJobs} :
                Injective(t)}}

\* lists of 1..MaxSel distinct indices into a list of n jobs
DistinctInRange(n) ==
    {t \in UNION {[1..m -> 0..(n - 1)] : m \in 1..MaxSel} : Injective(t)}

ScenarioFrame == [Frame(ctx, kb) EXCEPT !.faulty = {"notification"}]

Called(g, op, halted) ==
    /\ ctx' = g.ctx
    /\ kb' = g.kb
    /\ last' = [op |-> op, halts |-> last.halts + (IF halted THEN 1 ELSE 0)]
    /\ UNCHANGED clock

ScenarioSearch ==
    /\ ctx.current_state = INIT
    /\ \E j \in ScenarioDiscovery, n \in Outcomes(ScenarioFrame, "notification") :
        Called(step_search(ScenarioFrame,
                           [NoEnv EXCEPT !.jobs = j, !.notify_ok = n]),
               "step_search", FALSE)

ScenarioSelect ==
    /\ ctx.current_state = JOBS_FOUND
    /\ \E i \in DistinctInRange(Len(ctx.discovered_jobs)) :
        Called(step_select_jobs(ScenarioFrame, i), "step_select_jobs", FALSE)

ScenarioApprove ==
    /\ ctx.current_state = AWAITING_USER_APPROVAL
    /\ ctx.current_job_index < Len(ctx.selected_jobs)
    /\ Called(step_approve_cv(ScenarioFrame,
                              JobIdOf(ctx.selected_jobs[ctx.current_job_index + 1],
                                      ctx.current_job_index),
                              TRUE, None),
              "step_approve_cv", FALSE)

ScenarioRun ==
    /\ ctx.current_state \in {JOBS_SELECTED, CV_APPROVED}
    /\ \E g \in run_workflow(ScenarioFrame, None) :
        Called(g, "run_workflow",
               g.ctx.current_state = AWAITING_USER_APPROVAL)

InitScenario ==
    /\ clock = 0
    /\ kb = <<>>
    /\ ctx = create_workflow("u1", SUPERVISED)
    /\ last = [op |-> "create_workflow", halts |-> 0]

NextScenario ==
    \/ ScenarioSearch
    \/ ScenarioSelect
    \/ ScenarioApprove
    \/ ScenarioRun

\* the caller keeps making the next call of the scenario
SpecScenario == InitScenario /\ [][NextScenario]_vars /\ WF_vars(NextScenario)

----------------------------------------------------------------------------
(* The transition table of the specification (section 4.2), against which   *)
(* the state machine is checked                                              *)

TableEdges ==
    {<<INIT, SEARCHING>>,
     <<SEARCHING, JOBS_FOUND>>, <<SEARCHING, FAILED>>,
     <<JOBS_FOUND, JOBS_SELECTED>>,
     <<JOBS_SELECTED, CV_GENERATING>>,
     <<CV_GENERATING, CV_READY>>, <<CV_GENERATING, FAILED>>,
     <<CV_READY, AWAITING_USER_APPROVAL>>, <<CV_READY, CV_APPROVED>>,
     <<AWAITING_USER_APPROVAL, CV_APPROVED>>,
     <<AWAITING_USER_APPROVAL, CV_GENERATING>>,
     <<CV_APPROVED, APPLYING>>,
     <<APPLYING, NEEDS_INPUT>>, <<APPLYING, SUBMITTED>>, <<APPLYING, FAILED>>,
     <<NEEDS_INPUT, INPUT_RECEIVED>>,
     <<INPUT_RECEIVED, APPLYING>>,
     <<SUBMITTED, CV_GENERATING>>, <<SUBMITTED, COMPLETE>>}

Terminal == {COMPLETE, FAILED, CANCELLED}

\* the last call was transition, from a state and to a state that are (edge)
\* or are not (~edge) an edge of the table
LastTransition(edge) ==
    /\ last.op = "transition"
    /\ (<<last.before.current_state, last.arg.to_state>> \in TableEdges) = edge

\* C1: a transition call for a pair that is not an edge of the table (so any
\* call on a context in COMPLETE, FAILED or CANCELLED) returns false, raises
\* nothing and leaves every field of the context as it was, updated_at
\* included.
C1_RejectedTransitionChangesNothing ==
    LastTransition(FALSE) =>
        (last.ret = FALSE /\ ~last.raised /\ ctx = last.before)

\* C1 witness: a call on a terminal busy context has been rejected while the
\* clock had moved past updated_at
C1_Witness ==
    /\ LastTransition(FALSE)
    /\ last.before.current_state \in Terminal
    /\ last.before.submitted_applications # <<>>
    /\ last.before.updated_at < clock
    /\ last.ret = FALSE

\* C2: a transition call for an edge of the table returns true, sets
\* current_state to the target and changes no other field except updated_at.
C2_AcceptedTransitionSetsState ==
    LastTransition(TRUE) =>
        /\ last.ret = TRUE
        /\ ctx.current_state = last.arg.to_state
        /\ [ctx EXCEPT !.current_state = last.before.current_state,
                       !.updated_at = last.before.updated_at] = last.before

\* C2 witness: a busy context went from SEARCHING to FAILED
C2_Witness ==
    /\ LastTransition(TRUE)
    /\ last.before.current_state = SEARCHING
    /\ ctx.current_state = FAILED
    /\ ctx.errors # <<>>
    /\ last.ret = TRUE

----------------------------------------------------------------------------
(* Claims on the orchestrator, under Spec *)

RECURSIVE ReachableFrom(_)
\* the states the table's edges lead to from the states S
ReachableFrom(S) ==
    LET T == S \cup {e[2] : e \in {x \in TableEdges : x[1] \in S}}
    IN  IF T = S THEN S ELSE ReachableFrom(T)

\* the transitions of a call all follow edges of the table, start at the
\* state the call found, end at the state it left, and never enter INIT
FollowsTable(c, call) ==
    LET p == call.f.path
    IN  /\ p[1] = c.current_state
        /\ p[Len(p)] = call.f.ctx.current_state
        /\ \A i \in 1..(Len(p) - 1) : <<p[i], p[i + 1]>> \in TableEdges
        /\ \A i \in 2..Len(p) : p[i] # INIT

\* C3: from create_workflow on, whatever operations are called, every change
\* of current_state is an edge of the table; so current_state is reachable
\* from INIT, is never CANCELLED, and is never INIT again once left.
C3_StateChangesFollowTable ==
    /\ ctx.current_state \in ReachableFrom({INIT}) \ {CANCELLED}
    /\ \A call \in Calls(ctx, kb) : FollowsTable(ctx, call)

\* C3 witness: a workflow went all the way to COMPLETE with two submissions
C3_Witness ==
    /\ ctx.current_state = COMPLETE
    /\ Len(ctx.submitted_applications) = 2

\* C4: once current_state is COMPLETE, FAILED or CANCELLED, no step function
\* and no run_workflow call changes it again, whatever the arguments.
C4_TerminalStatesAreFinal ==
    [][ctx.current_state \in Terminal
            => ctx'.current_state = ctx.current_state]_vars

\* C4 witness: step_search has stored one job in a context that was handed
\* over in CANCELLED (with no job or with two), and the state is CANCELLED
C4_Witness ==
    /\ ctx.current_state = CANCELLED
    /\ Len(ctx.discovered_jobs) = 1

HaltStates(c) ==
    Terminal \cup {AWAITING_USER_APPROVAL, NEEDS_INPUT}
    \cup (IF c.mode = SUPERVISED THEN {JOBS_FOUND} ELSE {})

\* C5 (as claimed): whenever run_workflow without until_state returns, the
\* workflow is in a terminal state or in a state that waits for the user.
C5_RunReturnsAtHaltState ==
    \A call \in RunCalls(ctx, kb) :
        (call.arg.until_state = None /\ ~call.f.raised)
            => call.f.ctx.current_state \in HaltStates(call.f.ctx)

\* C6 (as claimed): in the supervised scenario the workflow eventually
\* reaches COMPLETE with exactly one submission per selected job, after
\* run_workflow halted at AWAITING_USER_APPROVAL once per selected job.
C6_SupervisedScenarioCompletes ==
    /\ [](ctx.current_state = COMPLETE =>
            /\ Len(ctx.submitted_applications) = Len(ctx.selected_jobs)
            /\ last.halts = Len(ctx.selected_jobs))
    /\ <>(ctx.current_state = COMPLETE)

\* C7 (as claimed): whenever a job-id is appended to submitted_applications,
\* cv_validations holds an entry for it whose approved flag is true.
C7_SubmittedOnlyWhenApproved ==
    \A call \in Calls(ctx, kb) :
        \A i \in DOMAIN call.f.submits : call.f.submits[i].approved

\* C8 (as claimed): no job-id occurs twice in submitted_applications.
C8_SubmittedOnce == Injective(ctx.submitted_applications)

\* C9 (as claimed): 0 <= current_job_index <= len(selected_jobs).
C9_CursorWithinSelection ==
    /\ 0 <= ctx.current_job_index
    /\ ctx.current_job_index <= Len(ctx.selected_jobs)

IsApproval(call) == call.op = "step_approve_cv" /\ call.arg.approved

Enters(call, s) == \E i \in 2..Len(call.f.path) : call.f.path[i] = s

\* the job-ids whose approved flag the call turned to true
NewlyApproved(c, call) ==
    {j \in DOMAIN call.f.ctx.cv_validations :
        IsApproved(call.f.ctx, j) /\ ~IsApproved(c, j)}

\* in supervised mode only an approval enters CV_APPROVED or sets an
\* approved flag to true
OnlyApprovalApproves ==
    \A call \in Calls(ctx, kb) :
        (Enters(call, CV_APPROVED) \/ NewlyApproved(ctx, call) # {})
            => IsApproval(call)

\* none of the operations ops moves the workflow while it waits for the user
StaysWaiting(ops) ==
    ctx.current_state \in {JOBS_FOUND, AWAITING_USER_APPROVAL} =>
        \A call \in Calls(ctx, kb) :
            call.op \in ops => call.f.path = <<ctx.current_state>>

\* C10 (as claimed): in supervised mode only step_approve_cv(approved=True)
\* enters CV_APPROVED or sets an approved flag, and run_workflow and the step
\* functions other than step_select_jobs and step_approve_cv never move the
\* workflow out of JOBS_FOUND or AWAITING_USER_APPROVAL.
C10_OnlyTheUserMovesOn ==
    ctx.mode = SUPERVISED =>
        /\ OnlyApprovalApproves
        /\ StaysWaiting({"run_workflow", "step_search", "step_generate_cv",
                         "step_apply", "step_handle_input"})

\* C10 (amended): as claimed, except that step_generate_cv called at
\* AWAITING_USER_APPROVAL does leave that state, for CV_GENERATING; it never
\* enters CV_APPROVED.
C10_OnlyTheUserApproves ==
    ctx.mode = SUPERVISED =>
        /\ OnlyApprovalApproves
        /\ StaysWaiting({"run_workflow", "step_search", "step_apply",
                         "step_handle_input"})
        /\ \A call \in GenerateCalls(ctx, kb) :
            /\ ctx.current_state = JOBS_FOUND
                => call.f.path = <<JOBS_FOUND>>
            /\ ctx.current_state = AWAITING_USER_APPROVAL
                => \A i \in 2..Len(call.f.path) :
                    call.f.path[i] \in {CV_GENERATING, CV_READY,
                                        AWAITING_USER_APPROVAL}

\* C10 witness: a supervised workflow waits for approval with a job at the
\* cursor, so that step_generate_cv and run_workflow have something to do
C10_Witness ==
    /\ ctx.mode = SUPERVISED
    /\ ctx.current_state = AWAITING_USER_APPROVAL
    /\ ctx.current_job_index < Len(ctx.selected_jobs)
    /\ ctx.submitted_applications # <<>>

----------------------------------------------------------------------------
(* Claims on single steps, under Spec *)

\* the frame of a call made now
Now == Frame(ctx, kb)

\* a job is at the cursor
JobAtCursor == ctx.current_job_index < Len(ctx.selected_jobs)

\* the id under which the steps file the job at the cursor
CursorJobId ==
    JobIdOf(ctx.selected_jobs[ctx.current_job_index + 1], ctx.current_job_index)

\* the environments of step_generate_cv in which nothing raises
CvSucceeds == {e \in CvEnvs(Now) : e.cv_ok /\ e.notify_ok}

\* what C11 says of a step_generate_cv call that ended with frame g after
\* the CV architect returned e.cv
ApprovalDecided(g, e) ==
    IF ctx.mode = AUTONOMOUS
       /\ should_auto_approve(e.cv.generated_cv, e.cv.validation)
    THEN /\ g.ctx.current_state = CV_APPROVED
         /\ IsApproved(g.ctx, CursorJobId)
    ELSE /\ g.ctx.current_state = AWAITING_USER_APPROVAL
         /\ ~IsApproved(g.ctx, CursorJobId)

\* the states from which step_generate_cv's transitions are accepted
GenerateStates ==
    {JOBS_SELECTED, CV_GENERATING, SUBMITTED, AWAITING_USER_APPROVAL}

\* C11 (as claimed): after step_generate_cv succeeds for a job, the state is
\* CV_APPROVED with the job approved exactly when the mode is autonomous and
\* should_auto_approve is true; otherwise the state is
\* AWAITING_USER_APPROVAL and the job is not approved.
C11_GenerateDecidesApproval ==
    JobAtCursor =>
        \A e \in CvSucceeds : ApprovalDecided(step_generate_cv(Now, e), e)

\* C11 (amended): so it is when step_generate_cv is called in JOBS_SELECTED,
\* CV_GENERATING, SUBMITTED or AWAITING_USER_APPROVAL; called in any other
\* state it leaves current_state as it was.
C11_GenerateDecidesApprovalWhenDue ==
    JobAtCursor =>
        \A e \in CvSucceeds :
            LET g == step_generate_cv(Now, e)
            IN  IF ctx.current_state \in GenerateStates
                THEN ApprovalDecided(g, e)
                ELSE g.ctx.current_state = ctx.current_state

\* C11 witness: an autonomous workflow in which step_generate_cv approved
\* the first job on the spot
C11_Witness ==
    /\ ctx.mode = AUTONOMOUS
    /\ ctx.current_state = CV_APPROVED
    /\ ctx.current_job_index = 0
    /\ ctx.errors = <<>>
    /\ IsApproved(ctx, "A")

----------------------------------------------------------------------------
(* SpecAutonomous: one run_workflow call on a fresh autonomous workflow, on  *)
(* job lists long enough for step_select_jobs to cut them. The discovery     *)
(* service returns and nothing raises; the CV architect returns either       *)
(* payload. last records the transitions of the call.                        *)

\* lists of 1..MaxBatch jobs, each with or without a job_id of its own
AutoDiscovery ==
    UNION {[1..n -> {Catalog[i] : i \in DOMAIN Catalog}] : n \in 1..MaxBatch}

RECURSIVE auto_loop(_, _, _)
\* run_loop on a given discovery result: run_workflow's while loop with the
\* dispatch for INIT calling step_search on the list jobs
auto_loop(f, jobs, iteration) ==
    IF f.ctx.current_state = INIT /\ loop_continues(iteration)
    THEN run_loop(step_search(f, [NoEnv EXCEPT !.jobs = jobs]), None,
                  iteration + 1)
    ELSE run_loop(f, None, iteration)

AutoRun ==
    /\ ctx.current_state = INIT
    /\ \E jobs \in AutoDiscovery :
        \E g \in auto_loop([Frame(ctx, kb) EXCEPT !.faulty = {}], jobs, 0) :
            /\ ctx' = g.ctx
            /\ kb' = g.kb
            /\ last' = [op |-> "run_workflow", path |-> g.path,
                        raised |-> g.raised]
            /\ UNCHANGED clock

InitAutonomous ==
    /\ clock = 0
    /\ kb = <<>>
    /\ ctx = create_workflow("u1", AUTONOMOUS)
    /\ last = [op |-> "create_workflow", path |-> <<INIT>>, raised |-> FALSE]

NextAutonomous == AutoRun

SpecAutonomous == InitAutonomous /\ [][NextAutonomous]_vars

\* every CV the call generated meets the criteria of should_auto_approve
AllAutoApprovable ==
    \A j \in DOMAIN ctx.generated_cvs :
        should_auto_approve(ctx.generated_cvs[j], ctx.cv_validations[j])

Min(a, b) == IF a < b THEN a ELSE b

\* C12: in autonomous mode, when discovery returns N >= 1 jobs, nothing
\* raises and every generated CV is auto-approvable, one run_workflow call
\* from INIT returns in COMPLETE with min(N, 10) submitted applications and
\* never entered AWAITING_USER_APPROVAL.
C12_AutonomousRunCompletes ==
    (last.op = "run_workflow" /\ AllAutoApprovable) =>
        /\ ~last.raised
        /\ ctx.current_state = COMPLETE
        /\ Len(ctx.submitted_applications) = Min(Len(ctx.discovered_jobs), TopN)
        /\ \A i \in DOMAIN last.path : last.path[i] # AWAITING_USER_APPROVAL

\* C12 witness: eleven jobs were found and the run submitted ten
C12_Witness ==
    /\ last.op = "run_workflow"
    /\ AllAutoApprovable
    /\ Len(ctx.discovered_jobs) = TopN + 1
    /\ Len(ctx.submitted_applications) = TopN
    /\ ctx.current_state = COMPLETE

----------------------------------------------------------------------------
(* Claims on run_workflow, under SpecAny *)

\* C13: on every starting context run_workflow returns after at most 100
\* iterations of its loop, also when the dispatched step changes nothing.
C13_RunStopsAtCeiling ==
    \A call \in RunCalls(ctx, kb) :
        /\ call.f.iters <= 100
        \* a dispatched step makes at most three transitions
        /\ Len(call.f.path) - 1 <= 3 * call.f.iters

\* run_workflow can be called here and dispatches a step that changes nothing
Spins ==
    \E call \in RunCalls(ctx, kb) :
        /\ call.f.iters = 100
        /\ call.f.ctx = ctx
        /\ ~call.f.raised

\* C13 witness: a workflow in CV_GENERATING with the cursor past the last
\* selected job, on which run_workflow spins up to the ceiling
C13_Witness ==
    /\ ctx.current_state = CV_GENERATING
    /\ ctx.selected_jobs # <<>>
    /\ ~JobAtCursor
    /\ Spins

\* C14: run_workflow called in AWAITING_USER_APPROVAL, NEEDS_INPUT,
\* JOBS_FOUND in supervised mode or a terminal state returns in its first
\* iteration, before any step is dispatched (so no collaborator is called),
\* and leaves the context and the knowledge store as they were; so does any
\* repetition of the call.
C14_RunAtHaltChangesNothing ==
    ctx.current_state \in HaltStates(ctx) =>
        \A call \in RunCalls(ctx, kb) :
            /\ ~call.f.raised
            /\ call.f.iters = 1
            /\ call.f.path = <<ctx.current_state>>
            /\ call.f.ctx = ctx
            /\ call.f.kb = kb
            /\ \A again \in RunCalls(call.f.ctx, call.f.kb) :
                again.f.ctx = ctx /\ again.f.kb = kb

\* C14 witness: step_search has stored one job in a supervised workflow
\* that waits for approval with a job at the cursor, and run_workflow is
\* called on it
C14_Witness ==
    /\ ctx.mode = SUPERVISED
    /\ ctx.current_state = AWAITING_USER_APPROVAL
    /\ Len(ctx.discovered_jobs) = 1
    /\ JobAtCursor
    /\ \E call \in RunCalls(ctx, kb) : call.f.iters = 1

----------------------------------------------------------------------------
(* Claims on the error handling of the steps, under Spec *)

\* the errors log of g is that of the current context plus one record of step
OneErrorAdded(g, step) ==
    /\ Len(g.ctx.errors) = Len(ctx.errors) + 1
    /\ SubSeq(g.ctx.errors, 1, Len(ctx.errors)) = ctx.errors
    /\ g.ctx.errors[Len(g.ctx.errors)].step = step

\* C15 (as claimed): an exception raised inside step_apply's application
\* attempt is not propagated, adds one error record of step 'apply', and
\* the workflow ends in FAILED.
C15_ApplyFailureIsFatal ==
    (ctx.current_state = CV_APPROVED /\ JobAtCursor) =>
        \A e \in ApplyEnvs(Now) :
            ~e.notify_ok =>
                LET g == step_apply(Now, e)
                IN  /\ ~g.raised
                    /\ OneErrorAdded(g, "apply")
                    /\ g.ctx.current_state = FAILED


\* what C16 says of a step_generate_cv call during which the CV architect
\* raised, but for the state it ends in
CvFailureSkipsJob(g) ==
    /\ ~g.raised
    /\ OneErrorAdded(g, "cv_generation")
    /\ g.ctx.current_job_index = ctx.current_job_index + 1
    /\ g.ctx.generated_cvs = ctx.generated_cvs
    /\ g.ctx.cv_validations = ctx.cv_validations

\* the environments of step_generate_cv in which the CV architect raises
CvFails == {e \in CvEnvs(Now) : ~e.cv_ok}

\* C16 (as claimed): when the CV architect raises in step_generate_cv for
\* the job at cursor i, the exception is not propagated, one error record of
\* step 'cv_generation' is added, the cursor becomes i + 1, no CV or
\* validation is stored, and the state is CV_GENERATING.
C16_CvFailureSkipsJob ==
    JobAtCursor =>
        \A e \in CvFails :
            LET g == step_generate_cv(Now, e)
            IN  CvFailureSkipsJob(g) /\ g.ctx.current_state = CV_GENERATING

\* C16 (amended): the state is CV_GENERATING when step_generate_cv is called
\* in JOBS_SELECTED, CV_GENERATING, SUBMITTED or AWAITING_USER_APPROVAL;
\* called in any other state it leaves current_state as it was. It never
\* moves the workflow to FAILED.
C16_CvFailureSkipsJobWhenDue ==
    JobAtCursor =>
        \A e \in CvFails :
            LET g == step_generate_cv(Now, e)
            IN  /\ CvFailureSkipsJob(g)
                /\ g.ctx.current_state =
                    (IF ctx.current_state \in GenerateStates
                     THEN CV_GENERATING ELSE ctx.current_state)
                /\ \A i \in 2..Len(g.path) : g.path[i] # FAILED

\* C16 witness: the CV architect failed on the first of two selected jobs
\* and the workflow is in CV_GENERATING with the cursor on the second
C16_Witness ==
    /\ ctx.current_state = CV_GENERATING
    /\ Len(ctx.selected_jobs) = 2
    /\ ctx.current_job_index = 1
    /\ ctx.generated_cvs = <<>>
    /\ Len(ctx.errors) = 1
    /\ ctx.errors[1].step = "cv_generation"
    /\ ctx.errors[1].message = "cv failed"


\* C17: step_search called in INIT never propagates an exception; when the
\* Discovery Service raises it appends exactly one error record of step
\* 'search' carrying the exception message, leaves discovered_jobs unchanged
\* and ends in FAILED; when the Discovery Service returns a list of jobs,
\* discovered_jobs is that list and the state is JOBS_FOUND.
C17_SearchFailsOrFindsJobs ==
    ctx.current_state = INIT =>
        \A e \in SearchEnvs(Now) :
            LET g == step_search(Now, e)
            IN  /\ ~g.raised
                /\ IF ~e.discovery_ok
                   THEN /\ OneErrorAdded(g, "search")
                        /\ g.ctx.errors[Len(g.ctx.errors)].message
                                = "discovery failed"
                        /\ g.ctx.discovered_jobs = ctx.discovered_jobs
                        /\ g.ctx.current_state = FAILED
                   ELSE /\ g.ctx.discovered_jobs = e.jobs
                        /\ g.ctx.current_state = JOBS_FOUND

\* C17 witness: a search in which the Discovery Service raised has ended
C17_Witness ==
    /\ ctx.current_state = FAILED
    /\ ctx.discovered_jobs = <<>>
    /\ ctx.errors = <<[step |-> "search", message |-> "discovery failed"]>>


\* the fields C18 compares between two outcomes of one step
SameOutcome(g, h) ==
    /\ g.raised = h.raised
    /\ g.ctx.current_state = h.ctx.current_state
    /\ g.ctx.current_job_index = h.ctx.current_job_index
    /\ g.ctx.submitted_applications = h.ctx.submitted_applications
    /\ g.ctx.generated_cvs = h.ctx.generated_cvs

\* the environment e with a notification callback that returns
Notified(e) == [e EXCEPT !.notify_ok = TRUE]

\* a failing notification callback leaves step_search as it would have ended
SearchUnharmed ==
    \A e \in SearchEnvs(Now) :
        ~e.notify_ok =>
            LET g == step_search(Now, e)
            IN  /\ SameOutcome(g, step_search(Now, Notified(e)))
                /\ g.ctx.errors = ctx.errors

\* ... and step_generate_cv
GenerateUnharmed ==
    \A e \in CvEnvs(Now) :
        ~e.notify_ok =>
            LET g == step_generate_cv(Now, e)
            IN  /\ SameOutcome(g, step_generate_cv(Now, Notified(e)))
                /\ g.ctx.errors = ctx.errors

\* ... and step_apply
ApplyUnharmed ==
    \A e \in ApplyEnvs(Now) :
        ~e.notify_ok =>
            LET g == step_apply(Now, e)
            IN  /\ SameOutcome(g, step_apply(Now, Notified(e)))
                /\ g.ctx.errors = ctx.errors

\* C18 (as claimed): when the notification callback raises inside
\* step_search, step_generate_cv or step_apply, the step finishes as it does
\* when the notification succeeds: same final state, cursor, submitted
\* applications and generated CVs, and no error record added.
C18_NotificationFailureIsHarmless ==
    SearchUnharmed /\ GenerateUnharmed /\ ApplyUnharmed


----------------------------------------------------------------------------
(* Claims on step_apply and step_approve_cv, under Spec *)

\* the environments of step_apply in which nothing raises
ApplySucceeds == {e \in ApplyEnvs(Now) : e.notify_ok}

\* C19: step_apply called in CV_APPROVED with a job at cursor i, when nothing
\* raises, passes through APPLYING and then SUBMITTED, appends the id of
\* selected_jobs[i] to submitted_applications once, moves the cursor to
\* i + 1, and ends in CV_GENERATING if i + 1 < len(selected_jobs) and in
\* COMPLETE otherwise.
C19_ApplySubmitsAndMovesOn ==
    (ctx.current_state = CV_APPROVED /\ JobAtCursor) =>
        \A e \in ApplySucceeds :
            LET g == step_apply(Now, e)
                i == ctx.current_job_index
                final == IF i + 1 < Len(ctx.selected_jobs)
                         THEN CV_GENERATING ELSE COMPLETE
            IN  /\ ~g.raised
                /\ g.path = <<CV_APPROVED, APPLYING, SUBMITTED, final>>
                /\ g.ctx.current_state = final
                /\ g.ctx.submitted_applications =
                        Append(ctx.submitted_applications, CursorJobId)
                /\ g.ctx.current_job_index = i + 1
                /\ g.ctx.errors = ctx.errors

\* C19 witness: the first of two selected jobs was applied to and the
\* workflow is back in CV_GENERATING for the second
C19_Witness ==
    /\ ctx.current_state = CV_GENERATING
    /\ Len(ctx.selected_jobs) = 2
    /\ ctx.current_job_index = 1
    /\ Len(ctx.submitted_applications) = 1
    /\ ctx.submitted_applications[1] =
            JobIdOf(ctx.selected_jobs[1], 0)
    /\ ctx.errors = <<>>


\* what C20 says of step_approve_cv(ctx, job_id, approved, feedback) that
\* ended with frame g
ApprovalRecorded(g, job_id, approved, feedback) ==
    /\ ~g.raised
    /\ job_id \in DOMAIN g.ctx.cv_validations
    /\ g.ctx.cv_validations[job_id].approved = approved
    /\ g.ctx.submitted_applications = ctx.submitted_applications
    /\ IF approved
       THEN /\ g.ctx.current_state = CV_APPROVED
            /\ g.ctx.current_job_index = ctx.current_job_index
       ELSE /\ g.ctx.cv_validations[job_id].feedback = feedback
            /\ g.ctx.current_job_index = ctx.current_job_index + 1
            /\ g.ctx.current_state = CV_GENERATING

\* C20 (as claimed): step_approve_cv called in AWAITING_USER_APPROVAL for the
\* job at the cursor: with approved=True it sets the validation's approved
\* flag, moves to CV_APPROVED and leaves the cursor; with approved=False it
\* clears the flag, stores the feedback, moves the cursor by one and goes to
\* CV_GENERATING; it never adds to submitted_applications.
C20_ApprovalRecorded ==
    (ctx.current_state = AWAITING_USER_APPROVAL /\ JobAtCursor) =>
        \A approved \in BOOLEAN :
            ApprovalRecorded(
                step_approve_cv(Now, CursorJobId, approved, "x"),
                CursorJobId, approved, "x")


----------------------------------------------------------------------------
(* Claims on step_select_jobs *)

\* the indices of a list that lie within 0 .. n - 1, in the listed order
InRange(indices, n) == SelectSeq(indices, LAMBDA i : 0 <= i /\ i < n)

\* the jobs of c.discovered_jobs at the listed indices (all within range)
JobsAt(c, indices) ==
    [k \in 1..Len(indices) |-> c.discovered_jobs[indices[k] + 1]]

\* C21 (as claimed): step_select_jobs in supervised mode with a non-empty
\* list of integer indices, called in JOBS_FOUND, selects exactly
\* discovered_jobs[i] for each listed i with 0 <= i < len(discovered_jobs),
\* in the listed order, drops every other index, too large or negative,
\* without raising, and moves to JOBS_SELECTED.
C21_SelectKeepsIndicesInRange ==
    (ctx.mode = SUPERVISED /\ ctx.current_state = JOBS_FOUND) =>
        \A indices \in IndexLists :
            Len(indices) > 0 =>
                LET g == step_select_jobs(Now, indices)
                IN  /\ ~g.raised
                    /\ g.ctx.selected_jobs =
                        JobsAt(ctx, InRange(indices, Len(ctx.discovered_jobs)))
                    /\ g.ctx.current_state = JOBS_SELECTED


\* C22 (as claimed): step_select_jobs moves the workflow to JOBS_SELECTED
\* only if the resulting selected_jobs is non-empty, in both modes, for any
\* number of discovered jobs and any list of indices.
C22_SelectedStateNeedsSelection ==
    \A indices \in IndexLists :
        LET g == step_select_jobs(Now, indices)
        IN  (Len(g.path) > 1 /\ g.ctx.current_state = JOBS_SELECTED) =>
                g.ctx.selected_jobs # <<>>


\* C23, under SpecAutonomous: step_select_jobs in autonomous mode with N
\* discovered jobs selects the first min(N, 10) of them in their discovered
\* order, whatever indices are passed, and does not raise.
C23_AutonomousSelectsTopTen ==
    ctx.mode = AUTONOMOUS =>
        \A indices \in IndexLists :
            LET g == step_select_jobs(Now, indices)
                N == Len(ctx.discovered_jobs)
            IN  /\ ~g.raised
                /\ Len(g.ctx.selected_jobs) = Min(N, TopN)
                /\ \A k \in 1..Min(N, TopN) :
                        g.ctx.selected_jobs[k] = ctx.discovered_jobs[k]

\* C23 witness: a run in which step_select_jobs cut eleven discovered jobs
\* to the first ten
C23_Witness ==
    /\ ctx.mode = AUTONOMOUS
    /\ last.op = "run_workflow"
    /\ Len(ctx.discovered_jobs) = TopN + 1
    /\ ctx.selected_jobs = SubSeq(ctx.discovered_jobs, 1, TopN)
    /\ ctx.discovered_jobs[TopN + 1] # ctx.discovered_jobs[TopN]


----------------------------------------------------------------------------
(* Claims on step_apply and step_handle_input out of and in their states,   *)
(* under SpecAny                                                             *)

\* the call that ended with frame g returned the context and the Knowledge
\* Store as they were, and submitted nothing
NothingDone(g) ==
    /\ ~g.raised
    /\ g.ctx = ctx
    /\ g.kb = kb
    /\ g.submits = <<>>
    /\ g.path = <<ctx.current_state>>

\* C24: step_apply called in any state other than CV_APPROVED, and
\* step_handle_input called in any state other than NEEDS_INPUT, return the
\* context with every field unchanged, submit nothing and write nothing to
\* the Knowledge Store.
C24_StepsOutOfStateDoNothing ==
    /\ ctx.current_state # CV_APPROVED =>
        \A e \in ApplyEnvs(Now) : NothingDone(step_apply(Now, e))
    /\ ctx.current_state # NEEDS_INPUT =>
        \A answers \in AnswerArgs :
            NothingDone(step_handle_input(Now, answers, NoEnv))

\* C24 witness: a context with pending inputs, submissions and a job at the
\* cursor, in a state where neither step is due, after operations ran on it
C24_Witness ==
    /\ ctx.current_state = CV_GENERATING
    /\ ctx.pending_inputs # <<>>
    /\ ctx.submitted_applications # <<>>
    /\ JobAtCursor
    /\ Len(ctx.discovered_jobs) = 1


\* the Knowledge Store k holds answer a to question q for user u
HasEntry(k, u, q, a) ==
    /\ u \in DOMAIN k
    /\ \E i \in DOMAIN k[u] :
        /\ k[u][i].question_pattern = lower(q)
        /\ k[u][i].answer = a

\* what C25 says of a step_handle_input call that ended with frame g, but
\* for the Knowledge Store
InputReceived(g) ==
    /\ ~g.raised
    /\ g.ctx.pending_inputs = <<>>
    /\ g.path = <<NEEDS_INPUT, INPUT_RECEIVED, APPLYING>>

\* C25 (as claimed): step_handle_input called in NEEDS_INPUT with answers A
\* writes every (question, answer) pair of A to the Knowledge Store under
\* ctx.user_id, empties pending_inputs, and moves through INPUT_RECEIVED and
\* then APPLYING, in that order.
C25_InputIsRecorded ==
    ctx.current_state = NEEDS_INPUT =>
        \A answers \in AnswerArgs :
            LET g == step_handle_input(Now, answers, NoEnv)
            IN  /\ InputReceived(g)
                /\ \A i \in DOMAIN answers :
                    HasEntry(g.kb, ctx.user_id, answers[i][1], answers[i][2])

\* C25 (amended): the Knowledge Store files answers under the lower-cased
\* question, one entry per question: of the pairs of A whose questions
\* differ in case only, the answer of the last one is kept.
C25_LastInputIsRecorded ==
    ctx.current_state = NEEDS_INPUT =>
        \A answers \in AnswerArgs :
            LET g == step_handle_input(Now, answers, NoEnv)
            IN  /\ InputReceived(g)
                /\ \A i \in DOMAIN answers :
                    (\A j \in DOMAIN answers :
                        j > i => lower(answers[j][1]) # lower(answers[i][1]))
                    => HasEntry(g.kb, ctx.user_id, answers[i][1], answers[i][2])
                /\ \A u \in DOMAIN g.kb :
                    \A m, n \in DOMAIN g.kb[u] :
                        g.kb[u][m].question_pattern = g.kb[u][n].question_pattern
                            => m = n

\* C25 witness: answers were taken in NEEDS_INPUT: the store has an entry,
\* nothing is pending and the workflow is in APPLYING
C25_Witness ==
    /\ ctx.current_state = APPLYING
    /\ ctx.pending_inputs = <<>>
    /\ ctx.submitted_applications # <<>>
    /\ HasEntry(kb, ctx.user_id, "Visa?", "no")


----------------------------------------------------------------------------
(* Claims on the timestamps, under SpecSM *)

\* a step of SpecSM in which transition is called (the clock stands still)
\* and accepts (edge) or rejects (~edge) the target state
TransitionStep(edge) ==
    /\ clock' = clock
    /\ last'.op = "transition"
    /\ last'.before = ctx
    /\ last'.ret = edge

\* C26 (as claimed): every accepted transition refreshes updated_at to a
\* value strictly later than its previous value, updated_at is never earlier
\* than created_at, and a rejected transition does not touch updated_at.
C26_UpdatedAtMovesForward ==
    [][/\ TransitionStep(TRUE) => ctx'.updated_at > ctx.updated_at
       /\ TransitionStep(FALSE) => ctx'.updated_at = ctx.updated_at
       /\ ctx'.updated_at >= ctx'.created_at]_vars

\* C26 (amended): an accepted transition sets updated_at to the reading of
\* the clock at the call, which is not earlier than the previous value and
\* is strictly later only if the clock has advanced since the previous
\* update; the rest as claimed.
C26_UpdatedAtIsTheClock ==
    [][/\ TransitionStep(TRUE) =>
            /\ ctx'.updated_at = clock
            /\ ctx'.updated_at >= ctx.updated_at
            /\ (ctx'.updated_at > ctx.updated_at) = (ctx.updated_at < clock)
       /\ TransitionStep(FALSE) => ctx'.updated_at = ctx.updated_at
       /\ ctx'.updated_at >= ctx'.created_at]_vars

\* C26 witness: a transition was accepted after the clock had advanced, and
\* updated_at moved forward
C26_Witness ==
    /\ LastTransition(TRUE)
    /\ last.ret = TRUE
    /\ ctx.updated_at > last.before.updated_at
    /\ ctx.updated_at > ctx.created_at


----------------------------------------------------------------------------
(* SpecInput: the operations on fresh workflows, as in Spec, and on          *)
(* workflows that wait in NEEDS_INPUT with questions pending. The reference  *)
(* step_apply never asks a question, so no operation enters NEEDS_INPUT or   *)
(* fills pending_inputs: such a workflow is the one a form analysis would    *)
(* leave behind, and it is where step_handle_input acts.                     *)

InitInput ==
    /\ clock = 0
    /\ kb = <<>>
    /\ ctx \in {create_workflow("u1", m) : m \in ApplicationMode}
               \cup {[BusyContext("u1", m) EXCEPT !.current_state = NEEDS_INPUT] :
                        m \in ApplicationMode}
    /\ last = NoCall

SpecInput == InitInput /\ [][Next]_vars

\* C27: in every state reachable through orchestrator operations,
\* pending_inputs is non-empty only while current_state is NEEDS_INPUT.
C27_PendingOnlyInNeedsInput ==
    ctx.pending_inputs # <<>> => ctx.current_state = NEEDS_INPUT

\* C27 witness: a workflow that waited with questions pending has left
\* NEEDS_INPUT through step_handle_input, and nothing is pending
C27_Witness ==
    /\ ctx.current_state # NEEDS_INPUT
    /\ ctx.pending_inputs = <<>>
    /\ ctx.errors # <<>>
    /\ HasEntry(kb, ctx.user_id, "Visa?", "yes")


----------------------------------------------------------------------------
(* Claims on the collections of the context, under Spec *)

\* C28: in every reachable state, every job id that is a key of
\* generated_cvs is also a key of cv_validations.
C28_EveryCvHasValidation ==
    \A job_id \in DOMAIN ctx.generated_cvs : job_id \in DOMAIN ctx.cv_validations

\* C28 witness: CVs were generated for two jobs, one of which failed its
\* validation
C28_Witness ==
    /\ Cardinality(DOMAIN ctx.generated_cvs) = 2
    /\ \E job_id \in DOMAIN ctx.generated_cvs :
        /\ job_id \in DOMAIN ctx.cv_validations
        /\ ctx.cv_validations[job_id].overall_verdict # "PASS"


\* s is an ordered subsequence of t: its elements are elements of t at
\* increasing positions
IsSubsequence(s, t) ==
    \E at \in [DOMAIN s -> DOMAIN t] :
        /\ \A i \in DOMAIN s : t[at[i]] = s[i]
        /\ \A i, j \in DOMAIN s : i < j => at[i] < at[j]

\* C29 (as claimed): in every reachable state selected_jobs is an ordered
\* subsequence of discovered_jobs: every selected job is a discovered job,
\* none occurs more often than in discovered_jobs, and the order of
\* discovered_jobs is kept.
C29_SelectionIsSubsequence ==
    IsSubsequence(ctx.selected_jobs, ctx.discovered_jobs)


----------------------------------------------------------------------------
(* Claims on the errors log, under SpecAny *)

\* the environments of the three steps that consult collaborators, whatever
\* the log already holds: every collaborator may return or raise
AllSearchEnvs ==
    {[NoEnv EXCEPT !.jobs = j, !.notify_ok = n] :
        j \in DiscoveryResults, n \in BOOLEAN}
    \cup {[NoEnv EXCEPT !.discovery_ok = FALSE]}

AllCvEnvs ==
    {[NoEnv EXCEPT !.cv = r, !.notify_ok = n] : r \in CvResults, n \in BOOLEAN}
    \cup {[NoEnv EXCEPT !.cv_ok = FALSE]}

AllApplyEnvs == {[NoEnv EXCEPT !.notify_ok = n] : n \in BOOLEAN}

\* the frames the steps can end with when called now, failures included
StepOutcomes ==
    {step_search(Now, e) : e \in AllSearchEnvs}
    \cup {step_generate_cv(Now, e) : e \in AllCvEnvs}
    \cup {step_apply(Now, e) : e \in AllApplyEnvs}
    \cup {call.f : call \in Calls(ctx, kb)}

\* the log of frame g is the present log with records added at the end, and
\* every record carries a step and a message
LogGrown(g) ==
    /\ Len(g.ctx.errors) >= Len(ctx.errors)
    /\ SubSeq(g.ctx.errors, 1, Len(ctx.errors)) = ctx.errors
    /\ \A i \in DOMAIN g.ctx.errors :
        {"step", "message"} \subseteq DOMAIN g.ctx.errors[i]

\* C30: every operation leaves the existing error records unchanged and in
\* place, adds new records only at the end, and every record carries a step
\* and a message; so after any sequence of operations the log has only
\* grown.
C30_ErrorsOnlyGrow ==
    \A g \in StepOutcomes : LogGrown(g)

\* C30 witness: a step has added a record to the log
C30_Witness ==
    /\ Len(ctx.errors) = 1
    /\ ctx.errors[1].step = "cv_generation"
    /\ ctx.errors[1].message = "notify failed"
    /\ ctx.current_state = AWAITING_USER_APPROVAL


----------------------------------------------------------------------------
(* SpecStatus: every operation followed by the status projection, as the    *)
(* API routes return workflow.to_status() after each step; on the workflows *)
(* of SpecInput. last holds the projection and whether taking it changed the    *)
(* context or the Knowledge Store.                                           *)

\* mutant of validation_approved: a validation counts once it was decided
validation_approved_if_decided(v) == "approved" \in DOMAIN v

\* v.get('approved', False) of to_status
validation_approved(v) == "approved" \in DOMAIN v /\ v["approved"] = TRUE

\* WorkflowContext.to_status on the frame's context: ret is the
\* WorkflowStatus
to_status(f) ==
    LET c == f.ctx
    IN  IF c.current_job_index < Len(c.selected_jobs)
           /\ PyIndexError(c.selected_jobs, c.current_job_index)
        THEN [f EXCEPT !.raised = TRUE]
        ELSE [f EXCEPT !.ret =
                [workflow_id |-> c.workflow_id,
                 user_id |-> c.user_id,
                 state |-> c.current_state,
                 jobs_found |-> Len(c.discovered_jobs),
                 jobs_selected |-> Len(c.selected_jobs),
                 cvs_generated |-> Cardinality(DOMAIN c.generated_cvs),
                 cvs_approved |->
                    Cardinality({k \in DOMAIN c.cv_validations :
                                    validation_approved(c.cv_validations[k])}),
                 applications_submitted |-> Len(c.submitted_applications),
                 applications_pending_input |-> Len(c.pending_inputs),
                 current_job |->
                    IF c.current_job_index < Len(c.selected_jobs)
                    THEN PyIndex(c.selected_jobs, c.current_job_index).title
                    ELSE None,
                 current_action |-> c.current_state,
                 created_at |-> c.created_at,
                 updated_at |-> c.updated_at,
                 last_error |->
                    IF c.errors # <<>>
                    THEN LET r == PyIndex(c.errors, 0 - 1)
                         IN  IF "message" \in DOMAIN r THEN r.message ELSE None
                    ELSE None]]

\* WorkflowOrchestrator.get_workflow_status on the registered workflow
get_workflow_status(f) == to_status(f)

\* an operation is called and the status of the workflow is then taken
Report(call) ==
    LET g == get_workflow_status(Frame(call.f.ctx, call.f.kb))
    IN  /\ ctx' = g.ctx
        /\ kb' = g.kb
        /\ last' = [op |-> "get_workflow_status",
                    changed |-> g.ctx # call.f.ctx \/ g.kb # call.f.kb,
                    ret |-> g.ret, raised |-> g.raised]
        /\ UNCHANGED clock

NextStatus ==
    \/ \E call \in SearchCalls(ctx, kb) : Report(call)
    \/ \E call \in SelectCalls(ctx, kb) : Report(call)
    \/ \E call \in GenerateCalls(ctx, kb) : Report(call)
    \/ \E call \in ApproveCalls(ctx, kb) : Report(call)
    \/ \E call \in ApplyCalls(ctx, kb) : Report(call)
    \/ \E call \in HandleInputCalls(ctx, kb) : Report(call)
    \/ \E call \in RunCalls(ctx, kb) : Report(call)

SpecStatus == InitInput /\ [][NextStatus]_vars

\* the status that C31 describes for the context c
StatusOf(c) ==
    [jobs_found |-> Len(c.discovered_jobs),
     jobs_selected |-> Len(c.selected_jobs),
     cvs_generated |-> Cardinality(DOMAIN c.generated_cvs),
     cvs_approved |->
        Cardinality({k \in DOMAIN c.cv_validations :
                        /\ "approved" \in DOMAIN c.cv_validations[k]
                        /\ c.cv_validations[k].approved}),
     applications_submitted |-> Len(c.submitted_applications),
     applications_pending_input |-> Len(c.pending_inputs),
     current_job |->
        IF c.current_job_index >= Len(c.selected_jobs)
        THEN None
        ELSE c.selected_jobs[c.current_job_index + 1].title,
     last_error |->
        IF c.errors = <<>> THEN None
        ELSE c.errors[Len(c.errors)].message]

\* C31: to_status never fails in a reachable state, changes no field of the
\* context, and reports the counts of discovered, selected, generated,
\* approved, submitted and pending items, the title of the job at the cursor
\* (none at or past the end) and the message of the last error (none without
\* errors).
C31_StatusIsAProjection ==
    last.op = "get_workflow_status" =>
        /\ ~last.raised
        /\ ~last.changed
        /\ \A field \in DOMAIN StatusOf(ctx) :
                last.ret[field] = StatusOf(ctx)[field]

\* C31 witness: the status of a workflow with one approved and one rejected
\* CV, one submission, the cursor past the end and an error on record
C31_Witness ==
    /\ last.op = "get_workflow_status"
    /\ last.ret.cvs_generated = 2
    /\ last.ret.cvs_approved = 1
    /\ Cardinality(DOMAIN ctx.cv_validations) = 2
    /\ \A k \in DOMAIN ctx.cv_validations : "approved" \in DOMAIN ctx.cv_validations[k]
    /\ last.ret.current_job = None
    /\ last.ret.jobs_selected = 2


----------------------------------------------------------------------------
(* SpecApprove: CVArchitectAgent.should_auto_approve alone, called on the   *)
(* CV and validation report that an autonomous workflow holds for job 'A'.   *)
(* Scores are whole percents around the threshold, and 0 and 100; the        *)
(* report has any verdict or none, and a list of hallucinations, empty or    *)
(* not, or none. last holds the result and the arguments after the call.     *)

Scores ==
    (ats_score_threshold_pct - ScoreMargin)..(ats_score_threshold_pct + ScoreMargin)
    \cup {0, 100}

Verdicts ==
    {"PASS", "PASS - MINOR ISSUES", "FAIL", "NEEDS_REVISION",
     "FAIL - HALLUCINATIONS", "pass"}

\* validation reports: each key present or absent
Reports ==
    {<<>>}
    \cup {[overall_verdict |-> v] : v \in Verdicts}
    \cup {[hallucinations_found |-> h] : h \in {<<>>, <<"h">>}}
    \cup {[overall_verdict |-> v, hallucinations_found |-> h] :
            v \in Verdicts, h \in {<<>>, <<"h">>}}

ShouldAutoApprove ==
    LET generated_cv == ctx.generated_cvs["A"]
        validation_report == ctx.cv_validations["A"]
    IN  /\ last' = [op |-> "should_auto_approve",
                    ret |-> should_auto_approve(generated_cv, validation_report),
                    generated_cv |-> generated_cv,
                    validation_report |-> validation_report]
        /\ UNCHANGED <<ctx, kb, clock>>

InitApprove ==
    /\ clock = 0
    /\ kb = <<>>
    /\ ctx \in {[create_workflow("u1", AUTONOMOUS) EXCEPT
                    !.generated_cvs = Put(<<>>, "A", [ats_score |-> score]),
                    !.cv_validations = Put(<<>>, "A", report)] :
                score \in Scores, report \in Reports}
    /\ last = NoCall

NextApprove == ShouldAutoApprove

SpecApprove == InitApprove /\ [][NextApprove]_vars

\* C32: should_auto_approve(cv, report) is true exactly when the report's
\* overall_verdict is 'PASS' or 'PASS - MINOR ISSUES', cv.ats_score is at
\* least the threshold on the 0-100 scale (85), and hallucinations_found is
\* empty or absent; it changes neither argument.
C32_AutoApproveCriteria ==
    last.op = "should_auto_approve" =>
        LET cv == ctx.generated_cvs["A"]
            report == ctx.cv_validations["A"]
            verdict_passes ==
                /\ "overall_verdict" \in DOMAIN report
                /\ \/ report.overall_verdict = "PASS"
                   \/ report.overall_verdict = "PASS - MINOR ISSUES"
            no_hallucinations ==
                \/ "hallucinations_found" \notin DOMAIN report
                \/ Len(report.hallucinations_found) = 0
        IN  /\ last.ret = (verdict_passes /\ cv.ats_score >= 85 /\ no_hallucinations)
            /\ last.generated_cv = cv
            /\ last.validation_report = report

\* C32 witness: a CV scoring exactly the threshold, with a minor-issues
\* verdict and an empty list of hallucinations, was approved
C32_Witness ==
    /\ last.op = "should_auto_approve"
    /\ last.ret = TRUE
    /\ ctx.generated_cvs["A"].ats_score = ats_score_threshold_pct
    /\ ctx.cv_validations["A"] =
            [overall_verdict |-> "PASS - MINOR ISSUES", hallucinations_found |-> <<>>]


----------------------------------------------------------------------------
(* SpecStore: KnowledgeBase.add_entry alone, called in any order for two    *)
(* users (the user_id of the workflow whose step_handle_input makes the     *)
(* call), on questions that differ in case or in text. The calls do not      *)
(* overlap: the orchestrator runs them synchronously. last holds the call    *)
(* and the store before it.                                                  *)

Users == {"u1", "u2"}

Questions == {"Visa?", "visa?", "name?"}

Answers == {"yes", "no"}

AddEntry ==
    \E user_id \in Users, question_pattern \in Questions, answer \in Answers :
        /\ kb' = add_entry(kb, user_id, question_pattern, answer)
        /\ last' = [op |-> "add_entry", user_id |-> user_id,
                    question_pattern |-> question_pattern, answer |-> answer,
                    before |-> kb]
        /\ UNCHANGED <<ctx, clock>>

InitStore ==
    /\ clock = 0
    /\ kb = <<>>
    /\ ctx = create_workflow("u1", SUPERVISED)
    /\ last = NoCall

NextStore == AddEntry

SpecStore == InitStore /\ [][NextStore]_vars

\* the entries of user u in store k
EntriesOf(k, u) == IF u \in DOMAIN k THEN k[u] ELSE <<>>

\* C33: after any sequence of add_entry calls for several users the store
\* holds, for each user, at most one entry per lower-cased question, whose
\* answer is the one of the most recent add_entry for that user and
\* question; the entries of other users and of other questions are
\* unchanged by a call.
C33_StoreIsLastWriteWins ==
    /\ \A u \in DOMAIN kb :
        \A m, n \in DOMAIN kb[u] :
            kb[u][m].question_pattern = kb[u][n].question_pattern => m = n
    /\ last.op = "add_entry" =>
        LET u == last.user_id
            old == EntriesOf(last.before, u)
        IN  /\ HasEntry(kb, u, last.question_pattern, last.answer)
            /\ \A v \in Users \ {u} :
                    EntriesOf(kb, v) = EntriesOf(last.before, v)
            /\ \A i \in DOMAIN old :
                    old[i].question_pattern # lower(last.question_pattern)
                        => (i \in DOMAIN kb[u] /\ kb[u][i] = old[i])
            /\ Len(kb[u]) <= Len(old) + 1

\* C33 witness: user u2 has answered the visa question twice, in different
\* case, between the answers of user u1; the later answer is on file
C33_Witness ==
    /\ last.op = "add_entry"
    /\ last.user_id = "u2"
    /\ last.question_pattern = "Visa?"
    /\ last.answer = "no"
    /\ HasEntry(last.before, "u2", "visa?", "yes")
    /\ HasEntry(kb, "u1", "visa?", "yes")
    /\ Len(EntriesOf(kb, "u2")) = 2
    /\ kb["u2"][2].question_pattern = "visa?"


----------------------------------------------------------------------------
\* every selected job has been disposed of: the cursor stands just past the
\* last of at least one selected job
AllJobsDone ==
    /\ ctx.selected_jobs # <<>>
    /\ ctx.current_job_index = Len(ctx.selected_jobs)

\* C34: whenever current_job_index has reached len(selected_jobs) with at
\* least one job selected, in the state the disposal of the last job left
\* (CV_GENERATING after a rejection or a skipped CV failure, a terminal state
\* after a submission), the next run_workflow call returns with the workflow
\* in COMPLETE or FAILED, never still in CV_GENERATING.
C34_RunFinishesWhenAllJobsDone ==
    (AllJobsDone /\ ctx.current_state \in {CV_GENERATING, COMPLETE, FAILED})
        => \A call \in RunCalls(ctx, kb) :
                call.f.ctx.current_state \in {COMPLETE, FAILED}


----------------------------------------------------------------------------
\* C35: after step_handle_input is called in NEEDS_INPUT the paused
\* application is resumed: when the call returns, the current job has been
\* applied for (its id is in submitted_applications and the state is
\* CV_GENERATING or COMPLETE), or the workflow is in FAILED or back in
\* NEEDS_INPUT; it is never left in APPLYING or INPUT_RECEIVED.
C35_InputResumesApplication ==
    (ctx.current_state = NEEDS_INPUT /\ JobAtCursor) =>
        \A call \in HandleInputCalls(ctx, kb) :
            LET c == call.f.ctx
            IN  \/ /\ c.current_state \in {CV_GENERATING, COMPLETE}
                   /\ \E i \in DOMAIN c.submitted_applications :
                        c.submitted_applications[i] = CursorJobId
                \/ c.current_state \in {FAILED, NEEDS_INPUT}


----------------------------------------------------------------------------
\* the call that ended with frame g left the job lists, the cursor, the
\* validations, the submissions and the error log as they were
DataUntouched(g) ==
    /\ g.ctx.discovered_jobs = ctx.discovered_jobs
    /\ g.ctx.selected_jobs = ctx.selected_jobs
    /\ g.ctx.current_job_index = ctx.current_job_index
    /\ g.ctx.cv_validations = ctx.cv_validations
    /\ g.ctx.submitted_applications = ctx.submitted_applications
    /\ g.ctx.errors = ctx.errors

\* C36: a step function invoked in a state from which its own first
\* transition is not allowed (step_search outside INIT, step_select_jobs
\* outside JOBS_FOUND, step_approve_cv outside AWAITING_USER_APPROVAL)
\* leaves discovered_jobs, selected_jobs, current_job_index, cv_validations,
\* submitted_applications and errors unchanged.
C36_StepsOutOfStateKeepData ==
    /\ ctx.current_state # INIT =>
        \A call \in SearchCalls(ctx, kb) : DataUntouched(call.f)
    /\ ctx.current_state # JOBS_FOUND =>
        \A call \in SelectCalls(ctx, kb) : DataUntouched(call.f)
    /\ ctx.current_state # AWAITING_USER_APPROVAL =>
        \A call \in ApproveCalls(ctx, kb) : DataUntouched(call.f)


----------------------------------------------------------------------------
\* the selected job at position p (counted from 0) was submitted, rejected
\* by the user, or skipped with a cv_generation error on record
AccountedFor(p) ==
    LET job == ctx.selected_jobs[p + 1]
        job_id == JobIdOf(job, p)
    IN  \/ \E i \in DOMAIN ctx.submitted_applications :
                ctx.submitted_applications[i] = job_id
        \/ /\ job_id \in DOMAIN ctx.cv_validations
           /\ "approved" \in DOMAIN ctx.cv_validations[job_id]
           /\ ctx.cv_validations[job_id]["approved"] = FALSE
        \/ \E i \in DOMAIN ctx.errors :
            /\ ctx.errors[i].step = "cv_generation"
            /\ ctx.errors[i].job = job.title

\* in COMPLETE the cursor stands just past the last selected job
CompleteAtEnd ==
    ctx.current_state = COMPLETE =>
        ctx.current_job_index = Len(ctx.selected_jobs)

\* in COMPLETE no selected job was passed over
CompleteAllAccounted ==
    ctx.current_state = COMPLETE =>
        \A p \in 0..(Len(ctx.selected_jobs) - 1) : AccountedFor(p)

\* C37: whenever the workflow is in COMPLETE, current_job_index equals
\* len(selected_jobs) and every selected job is accounted for: its id is in
\* submitted_applications, or its validation has approved = false, or errors
\* holds a cv_generation record for it.
C37_CompleteAccountsForEveryJob == CompleteAtEnd /\ CompleteAllAccounted


----------------------------------------------------------------------------
\* step_approve_cv as the API route calls it: a rejection carries feedback
Decide(f, job_id, approved) ==
    step_approve_cv(f, job_id, approved,
                    IF approved THEN None ELSE "User rejected")

\* the decision made twice in a row on the CV that awaits approval leaves
\* the context as the decision made once
RepeatedDecisionChangesNothing(approved) ==
    (ctx.current_state = AWAITING_USER_APPROVAL /\ JobAtCursor) =>
        LET once == Decide(Now, CursorJobId, approved)
            twice == Decide(Frame(once.ctx, once.kb), CursorJobId, approved)
        IN  ~once.raised => (~twice.raised /\ twice.ctx = once.ctx)

\* a repeated approval changes nothing
RepeatedApprovalChangesNothing == RepeatedDecisionChangesNothing(TRUE)

\* C38: calling step_approve_cv twice in a row with the same job_id and the
\* same decision, approve or reject, leaves the context exactly as calling
\* it once: the second call changes no field, in particular not
\* current_job_index.
C38_ApprovalIsIdempotent ==
    \A approved \in BOOLEAN : RepeatedDecisionChangesNothing(approved)


----------------------------------------------------------------------------
(* SpecOrchestrator: one WorkflowOrchestrator with two registered workflows  *)
(* and its one DiscoveryAgent. Here ctx holds the orchestrator: _workflows   *)
(* maps a workflow id to its context (with its preferences), and             *)
(* discovery_agent holds the agent's _seen_hashes. Upstream job data is a    *)
(* prefix of Catalog, drawn anew for every search.                           *)

WorkflowIds == {"w1", "w2"}

\* JobSearchPreferences.job_titles, the one preference the model's jobs
\* can be matched on
JobTitlePrefs == {{}, {"t1"}}

\* DiscoveryAgent._hash_job: the digest of the job's content, of which the
\* model's jobs have the title
hash_job(job) == job.title

\* the title filter of scrape_greenhouse_api and scrape_lever_api
matches_preferences(job, prefs) ==
    prefs.job_titles = {} \/ job.title \in prefs.job_titles

\* the loop of scrape_greenhouse_api over the upstream records: a matching
\* job is kept unless _is_duplicate knows its hash, and _is_duplicate
\* remembers the hash of every job it lets through
RECURSIVE scrape(_, _, _, _)
scrape(data, prefs, seen_hashes, jobs) ==
    IF data = <<>>
    THEN [jobs |-> jobs, seen_hashes |-> seen_hashes]
    ELSE LET job == Head(data)
         IN  IF ~matches_preferences(job, prefs)
             THEN scrape(Tail(data), prefs, seen_hashes, jobs)
             ELSE IF hash_job(job) \in seen_hashes
                  THEN scrape(Tail(data), prefs, seen_hashes, jobs)
                  ELSE scrape(Tail(data), prefs,
                              seen_hashes \cup {hash_job(job)},
                              Append(jobs, job))

\* DiscoveryAgent.search on upstream data: the batch it returns and the
\* agent afterwards
search(agent, prefs, data) ==
    LET r == scrape(data, prefs, agent.seen_hashes, <<>>)
    IN  [jobs |-> r.jobs, agent |-> [agent EXCEPT !.seen_hashes = r.seen_hashes]]

\* the context create_workflow registers under workflow_id
Registered(workflow_id, user_id, preferences) ==
    [create_workflow(user_id, preferences.application_mode)
        EXCEPT !.workflow_id = workflow_id] @@ [preferences |-> preferences]

\* step_search on a registered workflow, through the orchestrator's agent
OrchSearch ==
    \E w \in WorkflowIds, data \in DiscoveryResults :
        LET c == ctx.workflows[w]
            r == search(ctx.discovery_agent, c.preferences, data)
            g == step_search(Frame(c, kb), [NoEnv EXCEPT !.jobs = r.jobs])
        IN  /\ ctx' = [ctx EXCEPT !.workflows[w] = g.ctx,
                                  !.discovery_agent = r.agent]
            /\ kb' = g.kb
            /\ last' = [op |-> "step_search", workflow_id |-> w,
                        data |-> data, before |-> ctx]
            /\ UNCHANGED clock

\* step_select_jobs on a registered workflow
OrchSelect ==
    \E w \in WorkflowIds :
        \E call \in SelectCalls(ctx.workflows[w], kb) :
            /\ ~call.f.raised
            /\ ctx' = [ctx EXCEPT !.workflows[w] = call.f.ctx]
            /\ kb' = call.f.kb
            /\ last' = [op |-> call.op, workflow_id |-> w,
                        data |-> <<>>, before |-> ctx]
            /\ UNCHANGED clock

InitOrchestrator ==
    /\ clock = 0
    /\ kb = <<>>
    /\ \E m \in ApplicationMode, t \in JobTitlePrefs :
        ctx = [workflows |->
                [w \in WorkflowIds |->
                    Registered(w, IF w = "w1" THEN "u1" ELSE "u2",
                               [application_mode |-> IF w = "w1" THEN SUPERVISED ELSE m,
                                job_titles |-> IF w = "w1" THEN {} ELSE t])],
               discovery_agent |-> [seen_hashes |-> {}]]
    /\ last = NoCall

NextOrchestrator == OrchSearch \/ OrchSelect

SpecOrchestrator == InitOrchestrator /\ [][NextOrchestrator]_vars

\* the jobs a search with preferences prefs finds in the upstream data, by
\* an agent that has seen nothing
Matching(prefs, data) ==
    search([seen_hashes |-> {}], prefs, data).jobs

\* C39: workflows of one orchestrator do not interfere: a step function
\* (here step_search or step_select_jobs) called on one workflow leaves every field of every other registered
\* workflow unchanged, and the jobs that step_search stores for a workflow
\* depend only on its own preferences and the upstream job data, not on
\* searches made earlier through the same orchestrator.
C39_WorkflowsDoNotInterfere ==
    last.op \in {"step_search", "step_select_jobs"} =>
        /\ \A v \in WorkflowIds \ {last.workflow_id} :
                ctx.workflows[v] = last.before.workflows[v]
        /\ (last.op = "step_search"
            /\ last.before.workflows[last.workflow_id].current_state = INIT)
            => LET c == ctx.workflows[last.workflow_id]
               IN  c.discovered_jobs = Matching(c.preferences, last.data)

\* the first half of C39 alone: the other workflows' contexts stand
OtherWorkflowsUntouched ==
    last.op \in {"step_search", "step_select_jobs"} =>
        \A v \in WorkflowIds \ {last.workflow_id} :
            ctx.workflows[v] = last.before.workflows[v]


----------------------------------------------------------------------------
\* context c, if FAILED, has a last error record of the search or the apply
\* step, and its status projection shows it
FailedHasItsError(c) ==
    c.current_state = FAILED =>
        /\ c.errors # <<>>
        /\ c.errors[Len(c.errors)].step \in {"search", "apply"}
        /\ to_status(Frame(c, kb)).ret.last_error # None

\* context c, if FAILED, has an error record of the search or the apply
\* step somewhere in its log, and its status projection shows the last
\* record's message
FailedKeepsItsError(c) ==
    c.current_state = FAILED =>
        /\ c.errors # <<>>
        /\ \E i \in DOMAIN c.errors : c.errors[i].step \in {"search", "apply"}
        /\ to_status(Frame(c, kb)).ret.last_error
                = c.errors[Len(c.errors)].message

\* C40 (as claimed): whenever current_state is FAILED, now or after any
\* further step, errors is non-empty and its last record was added by the
\* step that failed the workflow (step 'search' or 'apply'), so last_error
\* in the status projection is set.
C40_FailedHasItsError ==
    /\ FailedHasItsError(ctx)
    /\ \A g \in StepOutcomes : FailedHasItsError(g.ctx)

\* C40 (amended): whenever current_state is FAILED, errors is non-empty and
\* holds the record of the step that failed the workflow, and last_error is
\* the message of the last record; that last record may be a later one,
\* added by a step called on the failed workflow.
C40_FailedKeepsItsError ==
    /\ FailedKeepsItsError(ctx)
    /\ \A g \in StepOutcomes : FailedKeepsItsError(g.ctx)

\* C40 witness: a workflow failed by its search, searched again and given a
\* selection, on which a failing CV generation puts its own record last
C40_Witness ==
    /\ ctx.current_state = FAILED
    /\ ctx.errors[Len(ctx.errors)].step = "search"
    /\ \E e \in AllCvEnvs :
        LET g == step_generate_cv(Now, e)
        IN  /\ g.ctx.current_state = FAILED
            /\ g.ctx.errors[Len(g.ctx.errors)].step = "cv_generation"

====
